---- MODULE Spec2Model ----
(***************************************************************************)
(* The multi-agent task-breakdown workflows of the LangGraph specification *)
(* (Pattern 3 "sequential reliable, enhanced" and Pattern 4 "sequential    *)
(* with compression, enhanced"), their node functions, the episodic and    *)
(* semantic memory manager, and the per-step validation and recovery       *)
(* strategy of the Pattern 3 description.                                  *)
(*                                                                         *)
(* Text is a sequence of tokens; len(text) is the number of tokens.        *)
(***************************************************************************)
EXTENDS Integers, Sequences, FiniteSets, TLC

\* ---------------------------------------------------------------- bounds
\* The longest subtask list the task breaker returns.
MaxSubtasks == 4
\* The longest summary the compression chain returns (tokens).
MaxSummaryLen == 2
\* The most episodes one similarity search returns (capped by its k).
MaxRetrieved == 1

\* ------------------------------------------------------ program constants
\* "if retry_count < 3" of the recovery strategy.
RetryLimit == 3
\* retrieve_relevant_episodes(query, k=5), the agents' search.
AgentK == 5
\* retrieve_relevant_episodes(state["context"], k=3), the compressor's search.
CompressK == 3

VARIABLES
    pattern,        \* which compiled graph graph.invoke runs
    state,          \* the AgentState threaded through the nodes
    memory_manager, \* the module-level AdvancedMemoryManager
    phase,          \* per node: idle, ready, invoke, validate, record, done
    prompt,         \* per agent node: the context built for the chain
    result,         \* per agent node: what the chain returned last
    retry_count,    \* per agent node: retries made so far
    outcomes,       \* per agent node: one BOOLEAN per attempt (valid or not)
    plan_attempts,  \* decomposition prompts sent by the task breaker
    run,            \* running, done (END reached) or failed
    error,          \* why the run failed
    failed_at,      \* the agent id the run failed at, 0 if none
    states,         \* per concurrent invocation: its own AgentState
    at,             \* per concurrent invocation: the node it is at
    executions,     \* per execution of the parallel graph: state and phases
    deployed,       \* deploy.sh: the stacks that exist in the account
    bootstrapped,   \* deploy.sh: whether the CDKToolkit stack exists
    main_step,      \* deploy.sh: the function main is at
    deploying,      \* deploy.sh: the cdk deploy command deploy_stacks is at
    warnings        \* deploy.sh: the functions that logged a warning

deploy_vars == <<deployed, bootstrapped, main_step, deploying, warnings>>

vars == <<pattern, state, memory_manager, phase, prompt, result, retry_count,
          outcomes, plan_attempts, run, error, failed_at, states, at,
          executions, deploy_vars>>

\* ------------------------------------------------------------------ text
Hdr(agent_id) == [kind |-> "hdr", agent |-> agent_id, n |-> 0]
Out(agent_id, attempt) == [kind |-> "out", agent |-> agent_id, n |-> attempt]
Bad(agent_id, attempt) == [kind |-> "bad", agent |-> agent_id, n |-> attempt]
Sum(j) == [kind |-> "sum", agent |-> 0, n |-> j]

\* Whether text part occurs in text whole (Python's "part in whole").
Contains(whole, part) ==
    \E i \in 0..(Len(whole) - Len(part)) :
        \A j \in 1..Len(part) : whole[i + j] = part[j]

RECURSIVE Concat(_)
Concat(texts) ==
    IF texts = << >> THEN << >> ELSE Head(texts) \o Concat(Tail(texts))

\* The summaries a compression chain can return: the prompt asks for
\* "<200 words" and nothing bounds what comes back by the input's length.
Summaries == {[j \in 1..len |-> Sum(j)] : len \in 0..MaxSummaryLen}

\* ----------------------------------------------------------------- graphs
Patterns == {"sequential", "compressed"}

AgentNodes == {"agent_1", "agent_2"}
CompressNodes == {"compress_1", "compress_2", "compress_final"}
Nodes == {"task_breaker", "memory_initializer", "memory_consolidator", "merger"}
         \cup AgentNodes \cup CompressNodes

\* lambda state: enhanced_sequential_agent_node(state, "1") and (state, "2")
AgentId(node) == IF node = "agent_1" THEN 1 ELSE 2

\* A mis-wired graph: both agents hang off the memory initializer, as in the
\* parallel fan-out patterns.
FanOutEdges(p) ==
    {<<"task_breaker", "memory_initializer">>,
     <<"memory_initializer", "agent_1">>,
     <<"memory_initializer", "agent_2">>,
     <<"agent_2", "memory_consolidator">>,
     <<"memory_consolidator", "merger">>,
     <<"merger", "END">>}

\* A mis-wired graph: the two agents in the opposite order.
SwappedEdges(p) ==
    {<<"task_breaker", "memory_initializer">>,
     <<"memory_initializer", "agent_2">>,
     <<"agent_2", "agent_1">>,
     <<"agent_1", "memory_consolidator">>,
     <<"memory_consolidator", "merger">>,
     <<"merger", "END">>}

\* A mis-wired graph: the memory consolidator sits between the two agents.
ConsolidatorEarlyEdges(p) ==
    {<<"task_breaker", "memory_initializer">>,
     <<"memory_initializer", "agent_1">>,
     <<"agent_1", "memory_consolidator">>,
     <<"memory_consolidator", "agent_2">>,
     <<"agent_2", "merger">>,
     <<"merger", "END">>}

\* workflow.add_edge calls of the two enhanced sequential graphs.
Edges(p) ==
    IF p = "sequential"
    THEN {<<"task_breaker", "memory_initializer">>,
          <<"memory_initializer", "agent_1">>,
          <<"agent_1", "agent_2">>,
          <<"agent_2", "memory_consolidator">>,
          <<"memory_consolidator", "merger">>,
          <<"merger", "END">>}
    ELSE {<<"task_breaker", "memory_initializer">>,
          <<"memory_initializer", "compress_1">>,
          <<"compress_1", "agent_1">>,
          <<"agent_1", "compress_2">>,
          <<"compress_2", "agent_2">>,
          <<"agent_2", "compress_final">>,
          <<"compress_final", "memory_consolidator">>,
          <<"memory_consolidator", "merger">>,
          <<"merger", "END">>}

Successors(node) == {e[2] : e \in {d \in Edges(pattern) : d[1] = node}}

\* The nodes in flight: scheduled by the graph and not yet returned.
InFlight == {node \in Nodes : phase[node] \notin {"idle", "done"}}

\* A node returns: the graph schedules its successors; END ends the run.
Completed(node) ==
    [m \in Nodes |->
        IF m = node THEN "done"
        ELSE IF m \in Successors(node) THEN "ready"
        ELSE phase[m]]

RunAfter(node) == IF "END" \in Successors(node) THEN "done" ELSE run

\* ------------------------------------------------------------ AgentState
\* initial_state = AgentState(...) of the usage example.
initial_state ==
    [subtasks |-> << >>,
     sub_results |-> << >>,
     final_result |-> << >>,
     context |-> << >>,
     compressed_context |-> << >>,
     step |-> "start",
     episodic_memory |-> << >>,
     semantic_memory |-> {}]

\* A dict is its items in insertion order: d[key] = value replaces the value
\* of a key already present and appends a new key at the end.
DictKeys(d) == {d[i].key : i \in 1..Len(d)}

DictGet(d, key) == d[CHOOSE i \in 1..Len(d) : d[i].key = key].value

DictSet(d, key, value) ==
    IF key \in DictKeys(d)
    THEN [i \in 1..Len(d) |->
            IF d[i].key = key THEN [key |-> key, value |-> value] ELSE d[i]]
    ELSE Append(d, [key |-> key, value |-> value])

\* ------------------------------------------------- AdvancedMemoryManager
NoEpisodeData ==
    [type |-> "none", agent_id |-> 0, task |-> 0, result |-> << >>,
     context |-> << >>, compressed_context |-> << >>]

\* add_episode that numbers episodes by the count of agent episodes only.
add_episode_agent_count(mm, episode_data) ==
    [mm EXCEPT !.episodic_memory =
        Append(@, [id |-> Cardinality({i \in 1..Len(mm.episodic_memory) :
                                mm.episodic_memory[i].data.type = "agent"}),
                   data |-> episode_data])]

\* add_episode: the id is the length of the list before the append.
add_episode(mm, episode_data) ==
    [mm EXCEPT !.episodic_memory =
        Append(@, [id |-> Len(mm.episodic_memory), data |-> episode_data])]

\* update_semantic_memory that stores what it is given under a fresh key on
\* every call, with no record of what was consolidated before.
update_semantic_memory_insert(mm, knowledge) ==
    [mm EXCEPT !.semantic_memory =
        @ \cup {[id |-> Cardinality(mm.semantic_memory), knowledge |-> knowledge]}]

\* update_semantic_memory: the body is "pass".
update_semantic_memory(mm, knowledge) == mm

\* The lists a similarity search over the episodes can return: at most k
\* episodes (and at most MaxRetrieved), here in id order. Which ones is the
\* vector index's choice.
retrieve_relevant_episodes(mm, k) ==
    LET eps == mm.episodic_memory
        cap == IF k < MaxRetrieved THEN k ELSE MaxRetrieved
    IN  {<< >>} \cup
        (IF cap >= 1 THEN {<<eps[i]>> : i \in 1..Len(eps)} ELSE {}) \cup
        (IF cap >= 2
         THEN {<<eps[q[1]], eps[q[2]]>> :
                    q \in {r \in (1..Len(eps)) \X (1..Len(eps)) : r[1] < r[2]}}
         ELSE {})

\* The text of one episode: what its step produced.
EpisodeText(episode) ==
    IF episode.data.type = "compression"
    THEN episode.data.compressed_context
    ELSE episode.data.result

format_episodes(episodes) ==
    Concat([i \in 1..Len(episodes) |-> EpisodeText(episodes[i])])

\* The semantic knowledge offered to an agent: nothing while the semantic
\* memory is empty.
get_semantic_context(mm, task) ==
    IF mm.semantic_memory = {} THEN << >> ELSE <<[kind |-> "fact", agent |-> 0, n |-> 0]>>

\* The candidate statements read off a list of episodes.
analyze_episodic_patterns(episodes) ==
    {EpisodeText(episodes[i]) : i \in 1..Len(episodes)}

\* A consolidation that drops the episodes it has gone through.
consolidate_memory_node_evicts(st, mm) ==
    [mm EXCEPT !.episodic_memory = << >>]

\* consolidate_memory_node: the patterns come from state["episodic_memory"].
consolidate_memory_node(st, mm) ==
    update_semantic_memory(mm, analyze_episodic_patterns(st.episodic_memory))

\* ------------------------------------------------------------------ Init
InitLocals ==
    /\ phase = [m \in Nodes |-> IF m = "task_breaker" THEN "ready" ELSE "idle"]
    /\ prompt = [a \in AgentNodes |-> << >>]
    /\ result = [a \in AgentNodes |-> << >>]
    /\ retry_count = [a \in AgentNodes |-> 0]
    /\ outcomes = [a \in AgentNodes |-> << >>]
    /\ plan_attempts = 0
    /\ run = "running"
    /\ error = "none"
    /\ failed_at = 0

\* The invocations of the compiled graph that run side by side, each with
\* an AgentState of its own.
Invocations == {"invoke_a", "invoke_b"}

InitInvocations ==
    /\ states = [r \in Invocations |-> initial_state]
    /\ at = [r \in Invocations |-> "task_breaker"]

\* The executions of the parallel graph that are compared with each other.
Executions == {"first", "second"}

\* The nodes of create_parallel_unreliable_graph.
ParallelNodes == {"task_breaker", "merger"} \cup AgentNodes

InitExecutions ==
    executions = [x \in Executions |->
        [state |-> initial_state,
         pc |-> [m \in ParallelNodes |->
                    IF m = "task_breaker" THEN "ready" ELSE "idle"]]]

\* deploy.sh has not been started.
InitDeploy ==
    /\ deployed = {}
    /\ bootstrapped = FALSE
    /\ main_step = "not_started"
    /\ deploying = 0
    /\ warnings = {}

\* graph.invoke(initial_state) on a freshly compiled graph, with a new
\* AdvancedMemoryManager.
Init ==
    /\ pattern \in Patterns
    /\ state = initial_state
    /\ memory_manager = [episodic_memory |-> << >>, semantic_memory |-> {}]
    /\ InitLocals
    /\ InitInvocations
    /\ InitExecutions
    /\ InitDeploy

\* An exception that is recorded while the graph keeps running.
RaiseNotFatal(err, agent_id) ==
    /\ run' = run
    /\ error' = err
    /\ failed_at' = agent_id

\* An exception leaves the node: graph.invoke raises and the run is over.
Raise(err, agent_id) ==
    /\ run' = "failed"
    /\ error' = err
    /\ failed_at' = agent_id

NoRaise == UNCHANGED <<run, error, failed_at>>

\* ---------------------------------------------------------- task breaker
\* The task planner: state.subtasks becomes the list the decomposition
\* returned, subtasks 1..n in order, however many agents the graph has.
TaskBreaker ==
    /\ run = "running"
    /\ phase["task_breaker"] = "ready"
    /\ \E n \in 1..MaxSubtasks :
        state' = [state EXCEPT !.subtasks = [i \in 1..n |-> i],
                               !.step = "planning_complete"]
    /\ plan_attempts' = plan_attempts + 1
    /\ phase' = Completed("task_breaker")
    /\ run' = RunAfter("task_breaker")
    /\ UNCHANGED <<executions, deploy_vars, states, at, pattern, memory_manager, prompt, result, retry_count,
                   outcomes, error, failed_at>>

\* The list came back empty or unparsable: one re-prompt, then PlanningError.
TaskBreakerEmpty ==
    /\ run = "running"
    /\ phase["task_breaker"] = "ready"
    /\ plan_attempts' = plan_attempts + 1
    /\ IF plan_attempts = 0 THEN NoRaise ELSE Raise("PlanningError", 0)
    /\ UNCHANGED <<executions, deploy_vars, states, at, pattern, state, memory_manager, phase, prompt, result,
                   retry_count, outcomes>>

\* initialize_memory_node: nothing of the modelled state changes.
MemoryInitializer ==
    /\ run = "running"
    /\ phase["memory_initializer"] = "ready"
    /\ phase' = Completed("memory_initializer")
    /\ run' = RunAfter("memory_initializer")
    /\ UNCHANGED <<executions, deploy_vars, states, at, pattern, state, memory_manager, prompt, result, retry_count,
                   outcomes, plan_attempts, error, failed_at>>

\* ------------------------------------------------------------ agent nodes
Task(t) == [kind |-> "task", agent |-> 0, n |-> t]

\* The context an agent node builds: "Previous work: {state.context}" in the
\* sequential node, "Compressed context: {state.compressed_context}" in the
\* compressed one, then the episodes and the semantic knowledge.
BuildContext(p, st, relevant_episodes, semantic_context) ==
    (IF p = "sequential" THEN st.context ELSE st.compressed_context)
    \o format_episodes(relevant_episodes) \o semantic_context

\* episode_data of the two agent nodes.
EpisodeData(p, st, agent_id, task, res, context) ==
    [type |-> "agent", agent_id |-> agent_id, task |-> task, result |-> res,
     context |-> IF p = "sequential" THEN context ELSE << >>,
     compressed_context |->
        IF p = "sequential" THEN << >> ELSE st.compressed_context]

\* The state update keyed by the other agent's id.
UpdateStateWrongKey(p, st, agent_id, res) ==
    [st EXCEPT !.sub_results = DictSet(@, 3 - agent_id, res)]

\* The state update that stores every result under the first agent's key.
UpdateStateSameKey(p, st, agent_id, res) ==
    [st EXCEPT !.sub_results = DictSet(@, 1, res)]

\* The state update at the end of an agent node: both nodes set
\* sub_results[agent_id]; only the sequential node appends to the context.
UpdateState(p, st, agent_id, res) ==
    IF p = "sequential"
    THEN [st EXCEPT !.sub_results = DictSet(@, agent_id, res),
                    !.context = @ \o <<Hdr(agent_id)>> \o res]
    ELSE [st EXCEPT !.sub_results = DictSet(@, agent_id, res)]

\* Validation left out: every result is taken as it comes.
validation_never_fails(res) == FALSE

\* validation_fails: the result lacks the content the step requires.
validation_fails(res) == \A k \in 1..Len(res) : res[k].kind # "out"

\* The recovery strategy with one retry too many.
RecoveryOneMore(res, count) ==
    IF validation_fails(res)
    THEN IF count <= RetryLimit THEN "retry" ELSE "escalate"
    ELSE "proceed"

\* RECOVERY STRATEGIES: retry while retry_count < 3, then escalate.
RecoveryStrategy(res, count) ==
    IF validation_fails(res)
    THEN IF count < RetryLimit THEN "retry" ELSE "escalate"
    ELSE "proceed"

\* state["subtasks"][int(agent_id)-1] with no such subtask: IndexError.
AgentIndexError(a) ==
    /\ run = "running"
    /\ phase[a] = "ready"
    /\ AgentId(a) > Len(state.subtasks)
    /\ Raise("IndexError", AgentId(a))
    /\ UNCHANGED <<executions, deploy_vars, states, at, pattern, state, memory_manager, phase, prompt, result,
                   retry_count, outcomes, plan_attempts>>

\* Retrieval and context assembly of an agent node.
AgentAssemble(a) ==
    /\ run = "running"
    /\ phase[a] = "ready"
    /\ AgentId(a) <= Len(state.subtasks)
    /\ \E relevant_episodes \in retrieve_relevant_episodes(memory_manager, AgentK) :
        prompt' = [prompt EXCEPT ![a] =
            BuildContext(pattern, state, relevant_episodes,
                get_semantic_context(memory_manager, state.subtasks[AgentId(a)]))
            \o <<Task(state.subtasks[AgentId(a)])>>]
    /\ phase' = [phase EXCEPT ![a] = "invoke"]
    /\ UNCHANGED <<executions, deploy_vars, states, at, pattern, state, memory_manager, result, retry_count,
                   outcomes, plan_attempts, run, error, failed_at>>

\* agent_chain.run: a result with the content its step requires, or one
\* without it (the agent failed).
AgentInvoke(a) ==
    /\ run = "running"
    /\ phase[a] = "invoke"
    /\ \E ok \in BOOLEAN :
        /\ result' = [result EXCEPT ![a] =
                IF ok THEN <<Out(AgentId(a), Len(outcomes[a]) + 1)>>
                ELSE <<Bad(AgentId(a), Len(outcomes[a]) + 1)>>]
        /\ outcomes' = [outcomes EXCEPT ![a] = Append(@, ok)]
    /\ phase' = [phase EXCEPT ![a] = "validate"]
    /\ UNCHANGED <<executions, deploy_vars, states, at, pattern, state, memory_manager, prompt, retry_count,
                   plan_attempts, run, error, failed_at>>

\* retry_with_enhanced_prompt()
AgentRetry(a) ==
    /\ run = "running"
    /\ phase[a] = "validate"
    /\ RecoveryStrategy(result[a], retry_count[a]) = "retry"
    /\ retry_count' = [retry_count EXCEPT ![a] = @ + 1]
    /\ phase' = [phase EXCEPT ![a] = "invoke"]
    /\ UNCHANGED <<executions, deploy_vars, states, at, pattern, state, memory_manager, prompt, result, outcomes,
                   plan_attempts, run, error, failed_at>>

\* escalate_to_human_review(): the flow is STOPPED at this step.
AgentEscalate(a) ==
    /\ run = "running"
    /\ phase[a] = "validate"
    /\ RecoveryStrategy(result[a], retry_count[a]) = "escalate"
    /\ Raise("SubtaskExecutionError", AgentId(a))
    /\ UNCHANGED <<executions, deploy_vars, states, at, pattern, state, memory_manager, phase, prompt, result,
                   retry_count, outcomes, plan_attempts>>

\* The hot episodic update and the state update of an agent node, then the
\* node returns.
AgentRecord(a) ==
    /\ run = "running"
    /\ phase[a] = "validate"
    /\ RecoveryStrategy(result[a], retry_count[a]) = "proceed"
    /\ memory_manager' = add_episode(memory_manager,
            EpisodeData(pattern, state, AgentId(a),
                        state.subtasks[AgentId(a)], result[a], prompt[a]))
    /\ state' = UpdateState(pattern, state, AgentId(a), result[a])
    /\ phase' = Completed(a)
    /\ run' = RunAfter(a)
    /\ UNCHANGED <<executions, deploy_vars, states, at, pattern, prompt, result, retry_count, outcomes,
                   plan_attempts, error, failed_at>>

\* -------------------------------------------------------- compress nodes
\* A compression that keeps only the summary and starts sub_results afresh.
CompressStateDropsResults(st, compressed) ==
    [st EXCEPT !.compressed_context = compressed, !.sub_results = << >>]

\* state["compressed_context"] = compressed
CompressState(st, compressed) ==
    [st EXCEPT !.compressed_context = compressed]

\* enhanced_compress_context_node: the chain's output replaces
\* compressed_context and is stored as a "compression" episode.
CompressContext(c) ==
    /\ run = "running"
    /\ phase[c] = "ready"
    /\ \E relevant_episodes \in retrieve_relevant_episodes(memory_manager, CompressK),
          compressed \in Summaries :
        /\ state' = CompressState(state, compressed)
        /\ memory_manager' = add_episode(memory_manager,
                [NoEpisodeData EXCEPT !.type = "compression",
                                      !.context = state.context,
                                      !.compressed_context = compressed])
    /\ phase' = Completed(c)
    /\ run' = RunAfter(c)
    /\ UNCHANGED <<executions, deploy_vars, states, at, pattern, prompt, result, retry_count, outcomes,
                   plan_attempts, error, failed_at>>

\* compression_chain.run raises: the node has no handler.
CompressRaises(c) ==
    /\ run = "running"
    /\ phase[c] = "ready"
    /\ Raise("ModelError", 0)
    /\ UNCHANGED <<executions, deploy_vars, states, at, pattern, state, memory_manager, phase, prompt, result,
                   retry_count, outcomes, plan_attempts>>

\* --------------------------------------------- consolidation and merging
MemoryConsolidator ==
    /\ run = "running"
    /\ phase["memory_consolidator"] = "ready"
    /\ memory_manager' = consolidate_memory_node(state, memory_manager)
    /\ phase' = Completed("memory_consolidator")
    /\ run' = RunAfter("memory_consolidator")
    /\ UNCHANGED <<executions, deploy_vars, states, at, pattern, state, prompt, result, retry_count, outcomes,
                   plan_attempts, error, failed_at>>

\* The merger: the sub-results, in dict order, become the final result.
Merger ==
    /\ run = "running"
    /\ phase["merger"] = "ready"
    /\ state' = [state EXCEPT
            !.final_result =
                Concat([i \in 1..Len(state.sub_results) |-> state.sub_results[i].value]),
            !.step = "completed"]
    /\ phase' = Completed("merger")
    /\ run' = RunAfter("merger")
    /\ UNCHANGED <<executions, deploy_vars, states, at, pattern, memory_manager, prompt, result, retry_count,
                   outcomes, plan_attempts, error, failed_at>>

Next ==
    \/ TaskBreaker
    \/ TaskBreakerEmpty
    \/ MemoryInitializer
    \/ \E a \in AgentNodes : AgentIndexError(a)
    \/ \E a \in AgentNodes : AgentAssemble(a)
    \/ \E a \in AgentNodes : AgentInvoke(a)
    \/ \E a \in AgentNodes : AgentRetry(a)
    \/ \E a \in AgentNodes : AgentEscalate(a)
    \/ \E a \in AgentNodes : AgentRecord(a)
    \/ \E c \in CompressNodes : CompressContext(c)
    \/ \E c \in CompressNodes : CompressRaises(c)
    \/ MemoryConsolidator
    \/ Merger

Spec == Init /\ [][Next]_vars

\* graph.invoke keeps running the scheduled node until END is reached or a
\* node raises: a step that stays possible is eventually taken.
FairSpec == Spec /\ WF_vars(Next)

\* ------------------------------------------------ concurrent invocations
\* Two graph.invoke calls on the compiled sequential graph, side by side. Each
\* call is handed an AgentState of its own; memory_manager is the one
\* module-level object the node functions of both calls use. The calls
\* interleave node by node: a step here is one whole node function, from
\* its call to its "return state".

\* A module-level state dict that every node writes, whichever call it
\* belongs to.
SetStateShared(r, st) == [q \in Invocations |-> st]

\* "return state": the node hands back the state it was called with.
SetState(r, st) == [states EXCEPT ![r] = st]

Goto(r, node) == [at EXCEPT ![r] = node]

NextNode(node) == CHOOSE m \in Successors(node) : TRUE

SingleRunIdle ==
    UNCHANGED <<executions, deploy_vars, pattern, state, phase, prompt, result, retry_count, outcomes,
                plan_attempts, run, error, failed_at>>

InvokeTaskBreaker(r) ==
    /\ at[r] = "task_breaker"
    /\ \E n \in 1..MaxSubtasks :
        states' = SetState(r, [states[r] EXCEPT !.subtasks = [i \in 1..n |-> i],
                                                !.step = "planning_complete"])
    /\ at' = Goto(r, NextNode(at[r]))
    /\ UNCHANGED memory_manager
    /\ SingleRunIdle

InvokeMemoryInitializer(r) ==
    /\ at[r] = "memory_initializer"
    /\ at' = Goto(r, NextNode(at[r]))
    /\ UNCHANGED <<states, memory_manager>>
    /\ SingleRunIdle

\* An agent node that returns: retrieval, context assembly, a result that
\* passes validation (after how many attempts is not told apart here), the
\* episode and the state update.
InvokeAgent(r) ==
    /\ at[r] \in AgentNodes
    /\ AgentId(at[r]) <= Len(states[r].subtasks)
    /\ \E relevant_episodes \in retrieve_relevant_episodes(memory_manager, AgentK) :
        LET agent_id == AgentId(at[r])
            task == states[r].subtasks[agent_id]
            context == BuildContext(pattern, states[r], relevant_episodes,
                            get_semantic_context(memory_manager, task))
                        \o <<Task(task)>>
            res == <<Out(agent_id, 1)>>
        IN  /\ RecoveryStrategy(res, 0) = "proceed"
            /\ memory_manager' = add_episode(memory_manager,
                    EpisodeData(pattern, states[r], agent_id, task, res, context))
            /\ states' = SetState(r, UpdateState(pattern, states[r], agent_id, res))
    /\ at' = Goto(r, NextNode(at[r]))
    /\ SingleRunIdle

\* An agent node that raises: no such subtask, or the retries are used up.
InvokeAgentRaises(r) ==
    /\ at[r] \in AgentNodes
    /\ at' = Goto(r, "FAILED")
    /\ UNCHANGED <<states, memory_manager>>
    /\ SingleRunIdle

InvokeConsolidator(r) ==
    /\ at[r] = "memory_consolidator"
    /\ memory_manager' = consolidate_memory_node(states[r], memory_manager)
    /\ at' = Goto(r, NextNode(at[r]))
    /\ UNCHANGED states
    /\ SingleRunIdle

InvokeMerger(r) ==
    /\ at[r] = "merger"
    /\ states' = SetState(r, [states[r] EXCEPT
            !.final_result =
                Concat([i \in 1..Len(states[r].sub_results) |->
                            states[r].sub_results[i].value]),
            !.step = "completed"])
    /\ at' = Goto(r, NextNode(at[r]))
    /\ UNCHANGED memory_manager
    /\ SingleRunIdle

NextInvocations ==
    \/ \E r \in Invocations : InvokeTaskBreaker(r)
    \/ \E r \in Invocations : InvokeMemoryInitializer(r)
    \/ \E r \in Invocations : InvokeAgent(r)
    \/ \E r \in Invocations : InvokeAgentRaises(r)
    \/ \E r \in Invocations : InvokeConsolidator(r)
    \/ \E r \in Invocations : InvokeMerger(r)

\* Both calls run the graph of create_sequential_reliable_enhanced_graph.
InitSequential == Init /\ pattern = "sequential"

SpecInvocations == InitSequential /\ [][NextInvocations]_vars

\* ------------------------------------------------------ parallel fan-out
\* create_parallel_unreliable_graph: the task breaker fans out to both
\* agents, which run in either order; each agent is followed by the
\* conditional edge "merge" if len(sub_results) == 2 else "wait".
graph_vars == <<pattern, state, memory_manager, phase, prompt, result,
                retry_count, outcomes, plan_attempts, run, error, failed_at,
                states, at>>

\* The number of sub-results the conditional edges wait for.
MergeWhen == 2

SetExecution(x, st, pc) == [executions EXCEPT ![x] = [state |-> st, pc |-> pc]]

\* An agent that adds its line to the shared context instead of replacing it.
ParallelWriteAppend(st, agent_id, res) ==
    [st EXCEPT !.sub_results = DictSet(@, agent_id, res),
               !.context = @ \o <<Hdr(agent_id)>>]

\* What an agent writes to the shared state: its entry of sub_results, and
\* the context string, which it replaces (shared_state["context"] = "...").
ParallelWrite(st, agent_id, res) ==
    [st EXCEPT !.sub_results = DictSet(@, agent_id, res),
               !.context = <<Hdr(agent_id)>>]

ParallelTaskBreaker(x) ==
    /\ executions[x].pc["task_breaker"] = "ready"
    /\ \E n \in 1..MaxSubtasks :
        executions' = SetExecution(x,
            [executions[x].state EXCEPT !.subtasks = [i \in 1..n |-> i],
                                       !.step = "planning_complete"],
            [m \in ParallelNodes |->
                IF m = "task_breaker" THEN "done"
                ELSE IF m \in AgentNodes THEN "ready"
                ELSE executions[x].pc[m]])
    /\ UNCHANGED <<graph_vars, deploy_vars>>

\* sub_agent_node, then the conditional edge of the agent.
ParallelAgent(x, a) ==
    /\ executions[x].pc[a] = "ready"
    /\ \A m \in ParallelNodes : executions[x].pc[m] # "raised"
    /\ AgentId(a) <= Len(executions[x].state.subtasks)
    /\ LET st == ParallelWrite(executions[x].state, AgentId(a),
                               <<Out(AgentId(a), 1)>>)
           route == IF Len(st.sub_results) = MergeWhen THEN "merge" ELSE "wait"
       IN  executions' = SetExecution(x, st,
                [m \in ParallelNodes |->
                    IF m = a THEN "done"
                    ELSE IF m = "merger" /\ route = "merge" THEN "ready"
                    ELSE executions[x].pc[m]])
    /\ UNCHANGED <<graph_vars, deploy_vars>>

\* state["subtasks"][int(agent_id)-1] with no such subtask: IndexError.
ParallelAgentRaises(x, a) ==
    /\ executions[x].pc[a] = "ready"
    /\ AgentId(a) > Len(executions[x].state.subtasks)
    /\ executions' = SetExecution(x, executions[x].state,
            [executions[x].pc EXCEPT ![a] = "raised"])
    /\ UNCHANGED <<graph_vars, deploy_vars>>

ParallelMerger(x) ==
    /\ executions[x].pc["merger"] = "ready"
    /\ executions' = SetExecution(x,
            [executions[x].state EXCEPT
                !.final_result =
                    Concat([i \in 1..Len(executions[x].state.sub_results) |->
                                executions[x].state.sub_results[i].value]),
                !.step = "completed"],
            [executions[x].pc EXCEPT !["merger"] = "done"])
    /\ UNCHANGED <<graph_vars, deploy_vars>>

NextParallel ==
    \/ \E x \in Executions : ParallelTaskBreaker(x)
    \/ \E x \in Executions : \E a \in AgentNodes : ParallelAgent(x, a)
    \/ \E x \in Executions : \E a \in AgentNodes : ParallelAgentRaises(x, a)
    \/ \E x \in Executions : ParallelMerger(x)

SpecParallel == InitSequential /\ [][NextParallel]_vars

\* ------------------------------------------------------------- deploy.sh
Stacks == {"BedrockGuardrailsStack", "BedrockKnowledgeBaseStack",
           "LambdaFunctionStack", "BedrockAgentStack", "ApiGatewayStack"}

\* The addDependency calls of bin/app.ts.
Dependencies(stack) ==
    IF stack = "BedrockKnowledgeBaseStack" THEN {"BedrockGuardrailsStack"}
    ELSE IF stack = "BedrockAgentStack"
    THEN {"BedrockGuardrailsStack", "BedrockKnowledgeBaseStack",
          "LambdaFunctionStack"}
    ELSE IF stack = "ApiGatewayStack" THEN {"BedrockAgentStack"}
    ELSE {}

\* deploy_stacks with the agent stack moved to the front.
DeployOrderAgentFirst ==
    <<"BedrockAgentStack", "BedrockGuardrailsStack",
      "BedrockKnowledgeBaseStack", "LambdaFunctionStack", "ApiGatewayStack">>

\* The cdk deploy commands of deploy_stacks, top to bottom.
DeployOrder ==
    <<"BedrockGuardrailsStack", "BedrockKnowledgeBaseStack",
      "LambdaFunctionStack", "BedrockAgentStack", "ApiGatewayStack">>

\* main: the functions it calls, in order.
MainSteps ==
    <<"check_aws_cli", "check_cdk", "check_bedrock_models",
      "install_dependencies", "build_project", "deploy_stacks",
      "get_stack_outputs", "trigger_kb_ingestion", "prepare_agent",
      "create_test_user", "display_summary">>

\* The functions with a command that "set -e" turns into an exit. The
\* others guard their commands with "|| echo", "if" or "&& ... ||".
CanFail ==
    {"check_aws_cli", "check_cdk", "install_dependencies", "build_project",
     "trigger_kb_ingestion", "prepare_agent"}

\* The functions with a log_warning branch: model access not confirmed, an
\* id missing from the stack outputs, the test user not created.
CanWarn ==
    {"check_bedrock_models", "trigger_kb_ingestion", "prepare_agent",
     "create_test_user"}

StepAfter(name) ==
    LET i == CHOOSE j \in 1..Len(MainSteps) : MainSteps[j] = name
    IN  IF i = Len(MainSteps) THEN "finished" ELSE MainSteps[i + 1]

\* The stacks named by the first k commands of deploy_stacks.
DeployedBy(k) == {DeployOrder[i] : i \in 1..k}

\* The script is started, in an account where an earlier run got as far as
\* some command of deploy_stacks, bootstrapped or not.
StartScript ==
    /\ main_step = "not_started"
    /\ \E k \in 0..Len(DeployOrder), b \in BOOLEAN :
        /\ deployed' = DeployedBy(k)
        /\ bootstrapped' = (b \/ k > 0)
    /\ main_step' = MainSteps[1]
    /\ UNCHANGED <<deploying, warnings, graph_vars, executions>>

\* check_cdk: cdk bootstrap runs when the CDKToolkit stack is missing.
CheckCdk ==
    /\ main_step = "check_cdk"
    /\ bootstrapped' = TRUE
    /\ main_step' = StepAfter(main_step)
    /\ UNCHANGED <<deployed, deploying, warnings, graph_vars, executions>>

\* Any other function of main returns; deploy_stacks is entered at its
\* first command.
StepReturns ==
    /\ main_step \in {MainSteps[i] : i \in 1..Len(MainSteps)}
                        \ {"check_cdk", "deploy_stacks"}
    /\ main_step' = StepAfter(main_step)
    /\ deploying' = IF main_step' = "deploy_stacks" THEN 1 ELSE deploying
    /\ UNCHANGED <<deployed, bootstrapped, warnings, graph_vars, executions>>

\* A function takes its log_warning branch and returns.
StepWarns ==
    /\ main_step \in CanWarn
    /\ warnings' = warnings \cup {main_step}
    /\ main_step' = StepAfter(main_step)
    /\ UNCHANGED <<deployed, bootstrapped, deploying, graph_vars, executions>>

\* set -e: a failing command ends the script.
StepFails ==
    /\ main_step \in CanFail
    /\ main_step' = "exited"
    /\ UNCHANGED <<deployed, bootstrapped, deploying, warnings, graph_vars,
                   executions>>

\* cdk deploy <stack> --require-approval never
CdkDeploy ==
    /\ main_step = "deploy_stacks"
    /\ deploying \in 1..Len(DeployOrder)
    /\ deployed' = deployed \cup {DeployOrder[deploying]}
    /\ deploying' = deploying + 1
    /\ main_step' = IF deploying = Len(DeployOrder)
                    THEN StepAfter(main_step) ELSE main_step
    /\ UNCHANGED <<bootstrapped, warnings, graph_vars, executions>>

CdkDeployFails ==
    /\ main_step = "deploy_stacks"
    /\ deploying \in 1..Len(DeployOrder)
    /\ main_step' = "exited"
    /\ UNCHANGED <<deployed, bootstrapped, deploying, warnings, graph_vars,
                   executions>>

NextDeploy ==
    \/ StartScript
    \/ CheckCdk
    \/ StepReturns
    \/ StepWarns
    \/ StepFails
    \/ CdkDeploy
    \/ CdkDeployFails

SpecDeploy == InitSequential /\ [][NextDeploy]_vars

\* ================================================================ claims
Keys == DictKeys(state.sub_results)

AgentEpisodes(agent_id) ==
    {i \in 1..Len(memory_manager.episodic_memory) :
        /\ memory_manager.episodic_memory[i].data.type = "agent"
        /\ memory_manager.episodic_memory[i].data.agent_id = agent_id}

CompressionEpisodes ==
    {i \in 1..Len(memory_manager.episodic_memory) :
        memory_manager.episodic_memory[i].data.type = "compression"}

AllFailed(a) == \A k \in 1..Len(outcomes[a]) : ~outcomes[a][k]

\* C1: subtasks execute in the planner's output order: whenever an entry for
\* the subtask at position j is appended to sub_results, every entry already
\* there belongs to a position less than j.
C1_ExecutionInPlannerOrder ==
    [][\A j \in DictKeys(state'.sub_results) \ Keys : \A i \in Keys : i < j]_vars

C1_Witness ==
    /\ Len(state.sub_results) = 2
    /\ state.sub_results[1].key = 1
    /\ state.sub_results[2].key = 2

\* C2: a subtask is not begun (no retrieval, context assembly or invocation
\* for it) until the output of every earlier subtask is in sub_results.
C2_NextBeginsAfterRecord ==
    \A a \in AgentNodes :
        phase[a] \in {"invoke", "validate", "done"}
            => \A i \in 1..(AgentId(a) - 1) : i \in Keys

C2_Witness ==
    /\ phase["agent_2"] = "invoke"
    /\ phase["agent_1"] = "done"
    /\ 1 \in Keys

\* C3: at most one node is in flight at any moment, so at most one subtask
\* is in flight and the AgentState has at most one writer.
C3_SingleWriter == Cardinality(InFlight) <= 1

C3_Witness ==
    /\ InFlight = {"agent_2"}
    /\ phase["agent_2"] = "validate"
    /\ 1 \in Keys

\* C4: whenever a run reaches END, the keys of sub_results are exactly the
\* ids (positions) of the planned subtasks.
C4_ResultsKeysEqualSubtasks ==
    run = "done" => Keys = 1..Len(state.subtasks)

C7_PromptContainsPriorOutput ==
    (Len(state.subtasks) = 2 /\ phase["agent_2"] \in {"invoke", "validate", "done"})
        => /\ 1 \in Keys
           /\ Contains(prompt["agent_2"], DictGet(state.sub_results, 1))

\* C8: whenever compression runs, the compressed context is no longer than
\* the context it was computed from.
C8_CompressionNeverLonger ==
    \A i \in CompressionEpisodes :
        Len(memory_manager.episodic_memory[i].data.compressed_context)
            <= Len(memory_manager.episodic_memory[i].data.context)

\* C9: a failure of the context compressor never moves the run to Failed.
C9_CompressionFailureNotFatal ==
    ~(run = "failed" /\ error = "ModelError")

DuplicateEpisodes(i) ==
    {j \in 1..Len(memory_manager.episodic_memory) :
        EpisodeText(memory_manager.episodic_memory[j])
            = EpisodeText(memory_manager.episodic_memory[i])}

\* C11: once the consolidator has run over a store that holds N >= 2 episodes
\* of the same content, there are fewer semantic facts than episodes and one
\* fact carries a support_count equal to the number of duplicates.
C11_DuplicatesMerged ==
    phase["memory_consolidator"] = "done"
        => \A i \in 1..Len(memory_manager.episodic_memory) :
              Cardinality(DuplicateEpisodes(i)) >= 2
                => /\ Cardinality(memory_manager.semantic_memory)
                        < Len(memory_manager.episodic_memory)
                   /\ \E f \in memory_manager.semantic_memory :
                        f.support_count = Cardinality(DuplicateEpisodes(i))

\* C13: the merger (the aggregation step) is entered only when sub_results
\* holds an output for every planned subtask.
C13_AggregatingOnlyWhenComplete ==
    phase["merger"] # "idle" => Keys = 1..Len(state.subtasks)

\* The coordinator state a graph position stands for: the planner and the
\* memory initializer are Planning, an agent node is Executing, a compress
\* node or the consolidator is the interleaved housekeeping, the merger is
\* Aggregating.
CoordinatorState ==
    IF run = "failed" THEN "Failed"
    ELSE IF run = "done" THEN "Done"
    ELSE LET node == CHOOSE m \in Nodes : m \in InFlight
         IN  IF node \in {"task_breaker", "memory_initializer"} THEN "Planning"
             ELSE IF node \in AgentNodes THEN "Executing"
             ELSE IF node = "merger" THEN "Aggregating"
             ELSE "Compressing"

\* The number of subtasks executed to completion.
Position == Cardinality({a \in AgentNodes : phase[a] = "done"})

\* The subtask being executed (1-based), when the state is Executing.
Executing == AgentId(CHOOSE a \in AgentNodes : a \in InFlight)

\* A state on the path Planning -> Executing(1) -> ... -> Executing(n) ->
\* Aggregating -> Done for a plan of n subtasks.
OnPath ==
    /\ CoordinatorState = "Planning" => Position = 0
    /\ CoordinatorState = "Executing"
            => Executing = Position + 1 /\ Executing <= Len(state.subtasks)
    /\ CoordinatorState = "Aggregating" => Position = Len(state.subtasks)
    /\ CoordinatorState = "Done" => phase["merger"] = "done"

\* C14: the coordinator moves only along Planning -> Executing(1) -> ... ->
\* Executing(n) -> Aggregating -> Done for the n planned subtasks, with
\* compression interleaved, or to Failed; Failed and Done are never left.
C14_StateMachine ==
    [][/\ OnPath'
       /\ CoordinatorState = "Failed" => CoordinatorState' = "Failed"
       /\ CoordinatorState = "Done" => CoordinatorState' = "Done"
       /\ CoordinatorState' = "Done" => CoordinatorState \in {"Aggregating", "Done"}]_vars

\* C15: an empty or unparsable subtask list makes the planner ask again
\* exactly once (never a third attempt); when the second attempt fails too
\* the run fails with PlanningError, no subtask has been executed and
\* sub_results is empty.
C15_PlanningFailure ==
    /\ plan_attempts <= 2
    /\ (plan_attempts = 1 /\ state.subtasks = << >>)
            => run = "running" /\ phase["task_breaker"] = "ready"
    /\ error = "PlanningError"
            => /\ run = "failed"
               /\ plan_attempts = 2
               /\ state.subtasks = << >>
               /\ state.sub_results = << >>
               /\ \A a \in AgentNodes : phase[a] = "idle" /\ outcomes[a] = << >>

C15_Witness ==
    /\ run = "failed"
    /\ error = "PlanningError"
    /\ plan_attempts = 2
    /\ state.sub_results = << >>

\* The agent ids of the agent episodes, in creation order.
AgentEpisodeOrder ==
    LET agent_episodes ==
            SelectSeq(memory_manager.episodic_memory,
                      LAMBDA episode : episode.data.type = "agent")
    IN  [i \in 1..Len(agent_episodes) |-> agent_episodes[i].data.agent_id]

\* The subtasks in the order their results were recorded.
CompletionOrder ==
    [i \in 1..Len(state.sub_results) |-> state.sub_results[i].key]

C18_RecordedOutputImmutable ==
    [][\A i \in 1..Len(state.sub_results) :
          /\ i <= Len(state'.sub_results)
          /\ state'.sub_results[i] = state.sub_results[i]]_vars

C18_Witness ==
    /\ pattern = "compressed"
    /\ run = "done"
    /\ DictGet(state.sub_results, 1) = <<Out(1, 1)>>
    /\ outcomes["agent_2"] = <<FALSE, TRUE>>

C12_ConcurrentMergesKept ==
    (\A r \in Invocations : at[r] \in {"merger", "END"})
        => \A i \in 1..Len(memory_manager.episodic_memory) :
              Cardinality(DuplicateEpisodes(i)) >= 2
                => \E f \in memory_manager.semantic_memory :
                      /\ f.support_count = Cardinality(DuplicateEpisodes(i))
                      /\ f.source_episode_ids =
                            {memory_manager.episodic_memory[j].id :
                                j \in DuplicateEpisodes(i)}

C22_CompressionOnlyOverThreshold ==
    \A i \in CompressionEpisodes :
        memory_manager.episodic_memory[i].data.context # << >>

IsPrefix(s, t) == Len(s) <= Len(t) /\ SubSeq(t, 1, Len(s)) = s

\* C23: the context only grows by appending: every step keeps the previous
\* context as a prefix of the new one, and a step that records a subtask's
\* result makes the context longer.
C23_ContextAppendOnly ==
    [][/\ IsPrefix(state.context, state'.context)
       /\ DictKeys(state'.sub_results) # Keys
            => Len(state'.context) > Len(state.context)]_vars

\* C24: a compression step leaves sub_results as it was, whether the
\* compression chain returns or raises.
C24_CompressionKeepsResults ==
    [][\A c \in CompressNodes :
          (phase[c] = "ready" /\ (phase'[c] # "ready" \/ run' # run))
              => state'.sub_results = state.sub_results]_vars

C24_Witness ==
    /\ pattern = "compressed"
    /\ phase["compress_final"] = "done"
    /\ Cardinality(CompressionEpisodes) = 3
    /\ Keys = {1, 2}

\* C25: the episode list is append-only: every step keeps the episodes
\* stored so far, ids and contents, at their places.
C25_EpisodesAppendOnly ==
    [][IsPrefix(memory_manager.episodic_memory,
                memory_manager'.episodic_memory)]_vars

C25_Witness ==
    /\ phase["memory_consolidator"] = "done"
    /\ phase["merger"] = "done"
    /\ Len(memory_manager.episodic_memory) = 5

\* C26: while agent i is executing (scheduled and not yet returned),
\* sub_results holds exactly the results of agents 1..i-1.
C26_ResultsExactlyEarlier ==
    \A a \in AgentNodes :
        a \in InFlight => Keys = 1..(AgentId(a) - 1)

C26_Witness ==
    /\ pattern = "compressed"
    /\ phase["agent_2"] = "ready"
    /\ Keys = {1}

\* C27: every run ends, Done or Failed, and it does so within a bounded
\* number of calls: no agent is invoked more than RetryLimit + 1 times and
\* the planner is prompted at most twice.
C27_RunTerminates ==
    /\ [](\A a \in AgentNodes : Len(outcomes[a]) <= RetryLimit + 1)
    /\ [](plan_attempts <= 2)
    /\ <>(run \in {"done", "failed"})

C27_Witness ==
    /\ run = "done"
    /\ \A a \in AgentNodes : Len(outcomes[a]) = RetryLimit + 1

C30_DeployOrderRespectsDependencies ==
    /\ (main_step = "deploy_stacks" /\ deploying \in 1..Len(DeployOrder))
            => Dependencies(DeployOrder[deploying]) \subseteq deployed
    /\ \A stack \in deployed : Dependencies(stack) \subseteq deployed
    /\ main_step = "finished" => deployed = Stacks

C30_Witness ==
    /\ main_step = "deploy_stacks"
    /\ DeployOrder[deploying] = "BedrockAgentStack"
    /\ deployed = {"BedrockGuardrailsStack", "BedrockKnowledgeBaseStack",
                   "LambdaFunctionStack"}

====
